---- MODULE Spec2Model ----
(***************************************************************************)
(* Bruker timsTOF duty cycle monitor (home.py): one Streamlit page.  The   *)
(* script is re-executed from its first line on every widget interaction;  *)
(* a click on Run re-executes it with the button reading True.  The model  *)
(* keeps the widget state, the position of the running script inside the   *)
(* `with sqlite_connect(...)` block, the names the script has bound so far *)
(* and the temporary file / connection of sqlite_connect.                  *)
(*                                                                         *)
(* Python's None and SQL's NULL are the empty tuple, a present value v is  *)
(* the 1-tuple <<v>>.  Times are integers (one unit = one tick of the      *)
(* acquisition clock); the expected frame period is kept in microseconds   *)
(* (1e-6 * trigger[us] and 1e-3 * quench[ms] both scaled by 1e6).          *)
(***************************************************************************)
EXTENDS Integers, Sequences, FiniteSets

VARIABLES analysis_tdf, in_low, in_high, warning, button_shown, run_pressed,
          pc, exc, fp_exists, conn,
          queries, defined, frame_id_low, frame_id_high,
          tic_ids, precsel_ids, precsel_times, ids, times, timediffs,
          submit_ids, submit_times,
          cycletime, numscans, quenchtime, exp_frame_time,
          empty_ms, empty_msms, fig, chart, ref

\* analysis_tdf, in_low, in_high   the uploader and the two optional bounds
\* warning, button_shown, run_pressed  what the last script run showed
\* pc, exc          the statement the run is at, the exception it ended with
\* fp_exists, conn  the temporary file and the connection of sqlite_connect
\* queries, defined the conn.execute calls and the names bound by this run
\* ref              history: the report of a run with both bounds unset
vars == <<analysis_tdf, in_low, in_high, warning, button_shown, run_pressed,
          pc, exc, fp_exists, conn,
          queries, defined, frame_id_low, frame_id_high,
          tic_ids, precsel_ids, precsel_times, ids, times, timediffs,
          submit_ids, submit_times,
          cycletime, numscans, quenchtime, exp_frame_time,
          empty_ms, empty_msms, fig, chart, ref>>

-----------------------------------------------------------------------------
(* Bounds and program constants *)

MaxFrameId == 3

LowDefault == 1
HighDefault == 100
MS1 == 0
MSMS == 8
QuenchScale == 1000

None == <<>>
Some(v) == <<v>>

FrameIds == 1..MaxFrameId
\* what the two number inputs are edited to: 0, every frame Id, and the
\* defaults the widgets come up with
LowVals == (0..MaxFrameId) \cup {LowDefault}
HighVals == (0..MaxFrameId) \cup {HighDefault}

-----------------------------------------------------------------------------
(* The uploaded store: the tables of analysis.tdf the script reads *)

PropertyDefinitions ==
  { [Id |-> 1, PermanentName |-> "PrecSel_CompleteTime"],
    [Id |-> 2, PermanentName |-> "Timing_SubmitFrame"],
    [Id |-> 3, PermanentName |-> "Digitizer_ExtractTriggerTime"],
    [Id |-> 4, PermanentName |-> "Collision_QuenchTime_Set"] }

\* Frame i is acquired at tick 2i or 2i+1: Time increases with Id
FrameRow(i, jitter, type, peaks, scans) ==
  [Id |-> i, Time |-> 2 * i + jitter, MsMsType |-> type, NumPeaks |-> peaks,
   NumScans |-> scans]

PlainFrame(i) == FrameRow(i, 0, MS1, 1, 1)

PropRow(f, p, v) == [Frame |-> f, Property |-> p, Value |-> v]

\* one value of each setting, on frame 1
PlainSettings == { PropRow(1, 3, Some(2)), PropRow(1, 4, Some(1)) }

RowsOf(F, P, n) == [Frames |-> F, Properties |-> P, SampleName |-> n]

\* The rows one frame Id contributes, by family of stores.
\*   timing: the frame absent, on time, or one tick late
\*   kind:   the frame MS1 or MS/MS, with or without peaks
\*   series: the frame with both timing properties, with one of them NULL
\*           and no row of the other, or the properties of a frame that is
\*           not in Frames
Choice(family, i) ==
  CASE family = "timing" ->
         { [F |-> {}, P |-> {}] }
         \cup { [F |-> {FrameRow(i, j, MS1, 1, 1)}, P |-> {}] : j \in {0, 1} }
    [] family = "kind" ->
         { [F |-> {FrameRow(i, 0, t, k, 1)}, P |-> {}]
             : t \in {MS1, MSMS}, k \in {0, 1} }
    [] family = "series" ->
         { [F |-> {PlainFrame(i)},
            P |-> {PropRow(i, 1, Some(10 + i)), PropRow(i, 2, Some(20 + i))}],
           [F |-> {PlainFrame(i)}, P |-> {PropRow(i, 1, None)}],
           [F |-> {PlainFrame(i)}, P |-> {PropRow(i, 2, None)}],
           [F |-> {},
            P |-> {PropRow(i, 1, Some(10 + i)), PropRow(i, 2, Some(20 + i))}] }

\* one choice per frame Id 1..n, on top of one value of each setting
RECURSIVE PerFrame(_, _)
PerFrame(family, n) ==
  IF n = 0 THEN { [F |-> {}, P |-> PlainSettings] }
  ELSE { [F |-> rest.F \cup c.F, P |-> rest.P \cup c.P]
           : rest \in PerFrame(family, n - 1), c \in Choice(family, n) }

Family(family) == { RowsOf(r.F, r.P, TRUE) : r \in PerFrame(family, MaxFrameId) }

TimingStores == Family("timing")
KindStores == Family("kind")
SeriesStores == Family("series")

\* the rows of one setting: none, one value, two values, one NULL
SettingRows(p) ==
  { {}, {PropRow(1, p, Some(1))},
    {PropRow(1, p, Some(1)), PropRow(2, p, Some(2))},
    {PropRow(1, p, None)} }

\* frames 1..k, all with s scans, or all but the first
ScanFrames ==
  { { FrameRow(i, 0, MS1, 1, IF i < m THEN 1 ELSE s) : i \in 1..k }
      : k \in 0..MaxFrameId, m \in 1..2, s \in {1, 2} }

\* one setting varied at a time; and a store without a sample name
SettingStores ==
  { RowsOf(F, P, TRUE)
      : F \in ScanFrames,
        P \in { r \cup {PropRow(1, 4, Some(1))} : r \in SettingRows(3) }
              \cup { {PropRow(1, 3, Some(2))} \cup r : r \in SettingRows(4) } }
  \cup { RowsOf(F, PlainSettings, FALSE) : F \in ScanFrames }

-----------------------------------------------------------------------------
(* Python and SQL as the script uses them *)

\* bool(x) of an int or None
Truthy(x) == x # None /\ x[1] # 0

\* s[start:stop] of a 0-based Python sequence held as a 1-based TLA+ one
PyIndex(i, n) == IF i < 0 THEN (IF i + n < 0 THEN 0 ELSE i + n)
                 ELSE (IF i > n THEN n ELSE i)

PySlice(s, start, stop) ==
  LET a == PyIndex(start, Len(s))
      b == PyIndex(stop, Len(s))
  IN  IF a < b THEN SubSeq(s, a + 1, b) ELSE <<>>

\* the differences taken from the first element: a[1:] - a[0]
DiffFromFirst(a) ==
  LET hi == PySlice(a, 1, Len(a))
  IN  [i \in 1..Len(hi) |-> hi[i] - a[1]]

\* a[1:] - a[0:-1] of a numpy array
Diff(a) ==
  LET hi == PySlice(a, 1, Len(a))
      lo == PySlice(a, 0, -1)
  IN  [i \in 1..Len(hi) |-> hi[i] - lo[i]]

\* MAX(x) / MIN(x): NULL over no rows
SqlMax(S) == IF S = {} THEN None ELSE Some(CHOOSE m \in S : \A x \in S : x <= m)
SqlMin(S) == IF S = {} THEN None ELSE Some(CHOOSE m \in S : \A x \in S : m <= x)

\* x BETWEEN lo AND hi
Between(x, lo, hi) == lo <= x /\ x <= hi

\* ORDER BY Id
RECURSIVE OrderById(_)
OrderById(rows) ==
  IF rows = {} THEN <<>>
  ELSE LET r == CHOOSE r \in rows : \A q \in rows : r.Id <= q.Id
       IN  <<r>> \o OrderById(rows \ {r})

Column(rows, c) == [i \in 1..Len(rows) |-> rows[i][c]]

\* (SELECT Id FROM PropertyDefinitions WHERE PermanentName = name)
PropertyId(name) ==
  LET m == { d \in PropertyDefinitions : d.PermanentName = name }
  IN  IF m = {} THEN None ELSE Some((CHOOSE d \in m : TRUE).Id)

\* SELECT MAX(Id) from Frames / SELECT MIN(Id) from Frames
SelectMaxId(db) == SqlMax({ f.Id : f \in db.Frames })
SelectMinId(db) == SqlMin({ f.Id : f \in db.Frames })

\* SELECT Id, SummedIntensities FROM Frames
\*   WHERE MsMsType=0 AND Id BETWEEN lo AND hi ORDER BY Id
SelectTic(db, lo, hi) ==
  OrderById({ f \in db.Frames : f.MsMsType = MS1 /\ Between(f.Id, lo, hi) })

\* the query without its WHERE clause
SelectAllTimes(db, lo, hi) == OrderById(db.Frames)

\* SELECT Id, Time FROM Frames WHERE Id BETWEEN lo AND hi ORDER BY Id
SelectTimes(db, lo, hi) ==
  OrderById({ f \in db.Frames : Between(f.Id, lo, hi) })

\* the join restricted to the frames of the range
SelectPropertyInRange(db, name) ==
  LET pid == PropertyId(name)
      on  == { fp \in db.Frames \X db.Properties :
                 /\ fp[2].Frame = fp[1].Id
                 /\ pid # None /\ fp[2].Property = pid[1]
                 /\ fp[2].Value # None
                 /\ Between(fp[1].Id, frame_id_low[1], frame_id_high[1]) }
  IN  OrderById({ [Id |-> fp[1].Id, Value |-> fp[2].Value[1]] : fp \in on })

\* SELECT f.Id, p.Value FROM Frames f JOIN Properties p ON p.Frame=f.Id
\*   AND p.Property=(...PermanentName=name) AND p.Value NOT NULL ORDER BY f.Id
SelectProperty(db, name) ==
  LET pid == PropertyId(name)
      on  == { fp \in db.Frames \X db.Properties :
                 /\ fp[2].Frame = fp[1].Id
                 /\ pid # None /\ fp[2].Property = pid[1]
                 /\ fp[2].Value # None }
  IN  OrderById({ [Id |-> fp[1].Id, Value |-> fp[2].Value[1]] : fp \in on })

\* SELECT DISTINCT(p.Value) FROM Properties p WHERE p.Property = (...name)
DistinctProperty(db, name) ==
  LET pid == PropertyId(name)
  IN  { p.Value : p \in { q \in db.Properties :
                            pid # None /\ q.Property = pid[1] } }

\* the scan counts of the frames of the range only
DistinctNumScansInRange(db) ==
  { Some(f.NumScans) :
      f \in { g \in db.Frames :
                Between(g.Id, frame_id_low[1], frame_id_high[1]) } }

\* SELECT DISTINCT(NumScans) FROM Frames
DistinctNumScans(db) == { Some(f.NumScans) : f \in db.Frames }

\* the count restricted to the frames of the range
CountEmptyInRange(db, type) ==
  { Some(Cardinality({ f \in db.Frames :
                         /\ f.NumPeaks = 0 /\ f.MsMsType = type
                         /\ Between(f.Id, frame_id_low[1],
                                    frame_id_high[1]) })) }

\* SELECT COUNT(*) FROM Frames WHERE NumPeaks=0 AND MsMsType=type
CountEmpty(db, type) ==
  { Some(Cardinality({ f \in db.Frames : f.NumPeaks = 0 /\ f.MsMsType = type })) }

\* only an empty result refused: `if len(tmp) == 0`
UniqueFailsOnEmptyOnly(rows) == Cardinality(rows) = 0

\* get_unique_value: the rows of the query, one value each
UniqueFails(rows) == Cardinality(rows) # 1
UniqueValue(rows) == CHOOSE v \in rows : TRUE

\* the text of a range query holds the word None when a bound is None
RangeQueryFails(lo, hi) == lo = None \/ hi = None

-----------------------------------------------------------------------------
(* The script *)

\* `if frame_id_high and frame_id_low: if frame_id_high < frame_id_low`
InvalidRange(lo, hi) == Truthy(hi) /\ Truthy(lo) /\ hi[1] < lo[1]

\* the upload check left out
NeverMissing(file) == FALSE

\* `if not analysis_tdf`
MissingUpload(file) == file = None

\* `not frame_id_high`, `not frame_id_low`: 0 taken for unset
IsFalsy(x) == ~Truthy(x)

\* `frame_id_high == None`, `frame_id_low == None`
IsNone(x) == x = None

db == analysis_tdf[1]

NoFigure == [traces |-> <<>>, shapes |-> <<>>, title |-> FALSE]

\* A script run starts with none of the names of the Run block bound, no
\* exception, and a new path fp = Path(str(uuid4())) at which no file exists
\* and for which no connection is made.
FreshRun ==
  /\ queries' = 0
  /\ defined' = {}
  /\ tic_ids' = <<>>
  /\ precsel_ids' = <<>>
  /\ precsel_times' = <<>>
  /\ ids' = <<>>
  /\ times' = <<>>
  /\ timediffs' = <<>>
  /\ submit_ids' = <<>>
  /\ submit_times' = <<>>
  /\ cycletime' = 0
  /\ numscans' = 0
  /\ quenchtime' = 0
  /\ exp_frame_time' = 0
  /\ empty_ms' = 0
  /\ empty_msms' = 0
  /\ fig' = NoFigure
  /\ chart' = None
  /\ exc' = "none"
  /\ fp_exists' = FALSE
  /\ conn' = "none"

\* One execution of the script from its first line to the Run block: the
\* widgets, the range check, the button and the upload check.
Script(file, lo, hi, run) ==
  /\ analysis_tdf' = file
  /\ in_low' = lo
  /\ in_high' = hi
  /\ frame_id_low' = lo
  /\ frame_id_high' = hi
  /\ run_pressed' = run
  /\ FreshRun
  /\ IF InvalidRange(lo, hi)
       THEN /\ warning' = "range"
            /\ button_shown' = FALSE
            /\ pc' = "idle"
       ELSE /\ button_shown' = TRUE
            /\ IF ~run
                 THEN warning' = "none" /\ pc' = "idle"
                 ELSE IF MissingUpload(file)
                        THEN warning' = "upload" /\ pc' = "idle"
                        ELSE warning' = "none" /\ pc' = "write_bytes"

Upload(s) ==
  /\ pc = "idle"
  /\ analysis_tdf = None
  /\ Script(Some(s), in_low, in_high, FALSE)
  /\ ref' = None

ToggleMin ==
  /\ pc = "idle"
  /\ Script(analysis_tdf, IF in_low = None THEN Some(LowDefault) ELSE None,
            in_high, FALSE)
  /\ UNCHANGED ref

EditLow(v) ==
  /\ pc = "idle"
  /\ in_low # None
  /\ in_low # Some(v)
  /\ Script(analysis_tdf, Some(v), in_high, FALSE)
  /\ UNCHANGED ref

ToggleMax ==
  /\ pc = "idle"
  /\ Script(analysis_tdf, in_low,
            IF in_high = None THEN Some(HighDefault) ELSE None, FALSE)
  /\ UNCHANGED ref

EditHigh(v) ==
  /\ pc = "idle"
  /\ in_high # None
  /\ in_high # Some(v)
  /\ Script(analysis_tdf, in_low, Some(v), FALSE)
  /\ UNCHANGED ref

PressRun ==
  /\ pc = "idle"
  /\ button_shown
  /\ Script(analysis_tdf, in_low, in_high, TRUE)
  /\ UNCHANGED ref

-----------------------------------------------------------------------------
(* The Run block: sqlite_connect and the body of the `with` statement *)

vPage == <<analysis_tdf, in_low, in_high, warning, button_shown, run_pressed>>
vRange == <<frame_id_low, frame_id_high>>
vSeries == <<tic_ids, precsel_ids, precsel_times, ids, times, timediffs,
             submit_ids, submit_times>>
vSettings == <<cycletime, numscans, quenchtime, exp_frame_time>>
vCounts == <<empty_ms, empty_msms>>
vStore == <<fp_exists, conn>>

\* an exception raised inside the `with` body: control goes to `finally`
Raise(e) == pc' = "finally" /\ exc' = e

Goto(label) == pc' = label /\ UNCHANGED exc

\* fp.write_bytes(db_bytes.getvalue())
WriteBytes ==
  /\ pc = "write_bytes"
  /\ IF analysis_tdf = None
       THEN pc' = "idle" /\ exc' = "AttributeError" /\ UNCHANGED fp_exists
       ELSE fp_exists' = TRUE /\ Goto("connect")
  /\ UNCHANGED <<vPage, vRange, vSeries, vSettings, vCounts, conn, queries,
                 defined, fig, chart, ref>>

\* conn = sqlite3.connect(str(fp))
Connect ==
  /\ pc = "connect"
  /\ conn' = "open"
  /\ Goto("default_range")
  /\ UNCHANGED <<vPage, vRange, vSeries, vSettings, vCounts, fp_exists,
                 queries, defined, fig, chart, ref>>

\* sqlite3.connect raises: the generator has not entered its `try` yet, the
\* exception leaves sqlite_connect and the Run block
ConnectFails ==
  /\ pc = "connect"
  /\ pc' = "idle"
  /\ exc' = "OperationalError"
  /\ UNCHANGED <<vPage, vRange, vSeries, vSettings, vCounts, vStore, queries,
                 defined, fig, chart, ref>>

DefaultRange ==
  /\ pc = "default_range"
  /\ frame_id_high' = IF IsNone(frame_id_high) THEN SelectMaxId(db)
                      ELSE frame_id_high
  /\ frame_id_low' = IF IsNone(frame_id_low) THEN SelectMinId(db)
                     ELSE frame_id_low
  /\ queries' = queries + (IF IsNone(frame_id_high) THEN 1 ELSE 0)
                        + (IF IsNone(frame_id_low) THEN 1 ELSE 0)
  /\ Goto("tic")
  /\ UNCHANGED <<vPage, vSeries, vSettings, vCounts, vStore, defined, fig,
                 chart, ref>>

QueryTic ==
  /\ pc = "tic"
  /\ queries' = queries + 1
  /\ IF RangeQueryFails(frame_id_low, frame_id_high)
       THEN Raise("OperationalError") /\ UNCHANGED <<tic_ids, defined>>
       ELSE /\ tic_ids' = Column(SelectTic(db, frame_id_low[1],
                                           frame_id_high[1]), "Id")
            /\ defined' = defined \cup {"tic_ids", "tic_intensities"}
            /\ Goto("precsel")
  /\ UNCHANGED <<vPage, vRange, precsel_ids, precsel_times, ids, times,
                 timediffs, submit_ids, submit_times, vSettings, vCounts,
                 vStore, fig, chart, ref>>

QueryPrecsel ==
  /\ pc = "precsel"
  /\ queries' = queries + 1
  /\ precsel_ids' = Column(SelectProperty(db, "PrecSel_CompleteTime"), "Id")
  /\ precsel_times' = Column(SelectProperty(db, "PrecSel_CompleteTime"),
                             "Value")
  /\ defined' = defined \cup {"precsel_ids", "precsel_times"}
  /\ Goto("times")
  /\ UNCHANGED <<vPage, vRange, tic_ids, ids, times, timediffs, submit_ids,
                 submit_times, vSettings, vCounts, vStore, fig, chart, ref>>

QueryTimes ==
  /\ pc = "times"
  /\ queries' = queries + 1
  /\ IF RangeQueryFails(frame_id_low, frame_id_high)
       THEN Raise("OperationalError")
            /\ UNCHANGED <<ids, times, timediffs, defined>>
       ELSE LET tmp == SelectTimes(db, frame_id_low[1], frame_id_high[1])
            IN  /\ ids' = Column(tmp, "Id")
                /\ times' = Column(tmp, "Time")
                /\ timediffs' = Diff(Column(tmp, "Time"))
                /\ defined' = defined \cup {"ids", "times", "timediffs"}
                /\ Goto("submit")
  /\ UNCHANGED <<vPage, vRange, tic_ids, precsel_ids, precsel_times,
                 submit_ids, submit_times, vSettings, vCounts, vStore, fig,
                 chart, ref>>

QuerySubmit ==
  /\ pc = "submit"
  /\ queries' = queries + 1
  /\ submit_ids' = Column(SelectProperty(db, "Timing_SubmitFrame"), "Id")
  /\ submit_times' = Column(SelectProperty(db, "Timing_SubmitFrame"), "Value")
  /\ defined' = defined \cup {"submit_ids", "submit_times"}
  /\ Goto("cycletime")
  /\ UNCHANGED <<vPage, vRange, tic_ids, precsel_ids, precsel_times, ids,
                 times, timediffs, vSettings, vCounts, vStore, fig, chart,
                 ref>>

\* cycletime_sec = 1e-6 * get_unique_value(...), kept in microseconds
CycleTime ==
  /\ pc = "cycletime"
  /\ queries' = queries + 1
  /\ LET rows == DistinctProperty(db, "Digitizer_ExtractTriggerTime")
     IN  IF UniqueFails(rows)
           THEN Raise("RuntimeError") /\ UNCHANGED <<cycletime, defined>>
           ELSE IF UniqueValue(rows) = None
             THEN Raise("TypeError") /\ UNCHANGED <<cycletime, defined>>
             ELSE /\ cycletime' = UniqueValue(rows)[1]
                  /\ defined' = defined \cup {"cycletime_sec"}
                  /\ Goto("numscans")
  /\ UNCHANGED <<vPage, vRange, vSeries, numscans, quenchtime,
                 exp_frame_time, vCounts, vStore, fig, chart, ref>>

NumScans ==
  /\ pc = "numscans"
  /\ queries' = queries + 1
  /\ LET rows == DistinctNumScans(db)
     IN  IF UniqueFails(rows)
           THEN Raise("RuntimeError") /\ UNCHANGED <<numscans, defined>>
           ELSE /\ numscans' = UniqueValue(rows)[1]
                /\ defined' = defined \cup {"numscans"}
                /\ Goto("quenchtime")
  /\ UNCHANGED <<vPage, vRange, vSeries, cycletime, quenchtime,
                 exp_frame_time, vCounts, vStore, fig, chart, ref>>

\* quenchtime_sec = 1e-3 * get_unique_value(...), kept in microseconds
QuenchTime ==
  /\ pc = "quenchtime"
  /\ queries' = queries + 1
  /\ LET rows == DistinctProperty(db, "Collision_QuenchTime_Set")
     IN  IF UniqueFails(rows)
           THEN Raise("RuntimeError") /\ UNCHANGED <<quenchtime, defined>>
           ELSE IF UniqueValue(rows) = None
             THEN Raise("TypeError") /\ UNCHANGED <<quenchtime, defined>>
             ELSE /\ quenchtime' = QuenchScale * UniqueValue(rows)[1]
                  /\ defined' = defined \cup {"quenchtime_sec"}
                  /\ Goto("exp_frame_time")
  /\ UNCHANGED <<vPage, vRange, vSeries, cycletime, numscans,
                 exp_frame_time, vCounts, vStore, fig, chart, ref>>

ExpFrameTime ==
  /\ pc = "exp_frame_time"
  /\ exp_frame_time' = numscans * cycletime + quenchtime
  /\ defined' = defined \cup {"exp_frame_time"}
  /\ Goto("empty_frames")
  /\ UNCHANGED <<vPage, vRange, vSeries, cycletime, numscans, quenchtime,
                 vCounts, vStore, queries, fig, chart, ref>>

EmptyFrames ==
  /\ pc = "empty_frames"
  /\ queries' = queries + 2
  /\ empty_ms' = UniqueValue(CountEmpty(db, MS1))[1]
  /\ empty_msms' = UniqueValue(CountEmpty(db, MSMS))[1]
  /\ defined' = defined \cup {"empty_ms", "empty_msms"}
  /\ Goto("figure")
  /\ UNCHANGED <<vPage, vRange, vSeries, vSettings, vStore, fig, chart, ref>>

\* fig = go.Figure() and the three traces
Figure ==
  /\ pc = "figure"
  /\ fig' = [NoFigure EXCEPT !.traces =
               << [name |-> "consecutive frames time deltas",
                   x |-> PySlice(ids, 0, -1), y |-> timediffs],
                  [name |-> "precsel + scheduling times",
                   x |-> precsel_ids, y |-> precsel_times],
                  [name |-> "frame submission times",
                   x |-> submit_ids, y |-> submit_times] >>]
  /\ defined' = defined \cup {"fig"}
  /\ Goto("add_shape")
  /\ UNCHANGED <<vPage, vRange, vSeries, vSettings, vCounts, vStore,
                 queries, chart, ref>>

\* the red line from ids[0] to ids[-1] at the expected frame time
AddShape ==
  /\ pc = "add_shape"
  /\ IF Len(ids) = 0
       THEN Raise("IndexError") /\ UNCHANGED fig
       ELSE /\ fig' = [fig EXCEPT !.shapes =
                         << [x0 |-> ids[1], x1 |-> ids[Len(ids)],
                             y |-> exp_frame_time] >>]
            /\ Goto("sample_name")
  /\ UNCHANGED <<vPage, vRange, vSeries, vSettings, vCounts, vStore,
                 queries, defined, chart, ref>>

\* sample_name = conn.execute(...).fetchone()[0] and the title
SampleName ==
  /\ pc = "sample_name"
  /\ queries' = queries + 1
  /\ IF ~db.SampleName
       THEN Raise("TypeError") /\ UNCHANGED <<fig, defined>>
       ELSE /\ fig' = [fig EXCEPT !.title = TRUE]
            /\ defined' = defined \cup {"sample_name"}
            /\ Goto("plotly_chart")
  /\ UNCHANGED <<vPage, vRange, vSeries, vSettings, vCounts, vStore, chart,
                 ref>>

\* what a run reports that the claims call independent of the range
Report ==
  [exp_frame_time |-> exp_frame_time, empty_ms |-> empty_ms,
   empty_msms |-> empty_msms, precsel |-> <<precsel_ids, precsel_times>>,
   submit |-> <<submit_ids, submit_times>>]

\* st.plotly_chart(fig); ref remembers the report of a run of this upload
\* with both bounds unset
PlotlyChart ==
  /\ pc = "plotly_chart"
  /\ chart' = Some(fig)
  /\ ref' = IF in_low = None /\ in_high = None THEN Some(Report) ELSE ref
  /\ pc' = "finally"
  /\ UNCHANGED <<vPage, vRange, vSeries, vSettings, vCounts, vStore,
                 queries, defined, fig, exc>>

\* finally: conn.close(); fp.unlink()
Finally ==
  /\ pc = "finally"
  /\ conn' = "closed"
  /\ fp_exists' = FALSE
  /\ pc' = "idle"
  /\ UNCHANGED <<vPage, vRange, vSeries, vSettings, vCounts, queries,
                 defined, fig, chart, exc, ref>>

-----------------------------------------------------------------------------
(* Specifications: one per family of uploaded stores *)

Init ==
  /\ analysis_tdf = None
  /\ in_low = None
  /\ in_high = None
  /\ frame_id_low = None
  /\ frame_id_high = None
  /\ warning = "none"
  /\ button_shown = TRUE
  /\ run_pressed = FALSE
  /\ pc = "idle"
  /\ exc = "none"
  /\ fp_exists = FALSE
  /\ conn = "none"
  /\ queries = 0
  /\ defined = {}
  /\ tic_ids = <<>>
  /\ precsel_ids = <<>>
  /\ precsel_times = <<>>
  /\ ids = <<>>
  /\ times = <<>>
  /\ timediffs = <<>>
  /\ submit_ids = <<>>
  /\ submit_times = <<>>
  /\ cycletime = 0
  /\ numscans = 0
  /\ quenchtime = 0
  /\ exp_frame_time = 0
  /\ empty_ms = 0
  /\ empty_msms = 0
  /\ fig = NoFigure
  /\ chart = None
  /\ ref = None

Widgets ==
  \/ ToggleMin
  \/ ToggleMax
  \/ \E v \in LowVals : EditLow(v)
  \/ \E v \in HighVals : EditHigh(v)
  \/ PressRun

Run ==
  \/ WriteBytes
  \/ Connect
  \/ ConnectFails
  \/ DefaultRange
  \/ QueryTic
  \/ QueryPrecsel
  \/ QueryTimes
  \/ QuerySubmit
  \/ CycleTime
  \/ NumScans
  \/ QuenchTime
  \/ ExpFrameTime
  \/ EmptyFrames
  \/ Figure
  \/ AddShape
  \/ SampleName
  \/ PlotlyChart
  \/ Finally

Next == (\E s \in TimingStores : Upload(s)) \/ Widgets \/ Run
NextKinds == (\E s \in KindStores : Upload(s)) \/ Widgets \/ Run
NextSettings == (\E s \in SettingStores : Upload(s)) \/ Widgets \/ Run
NextSeries == (\E s \in SeriesStores : Upload(s)) \/ Widgets \/ Run

Spec == Init /\ [][Next]_vars
SpecKinds == Init /\ [][NextKinds]_vars
SpecSettings == Init /\ [][NextSettings]_vars
SpecSeries == Init /\ [][NextSeries]_vars

-----------------------------------------------------------------------------
(* Properties *)

\* the script has run to its end or to its last exception
Terminal == pc = "idle"

\* the run got into the body of the `with` statement and has left it
BodyLeft == run_pressed /\ pc = "idle" /\ conn = "closed"

HighBelowLow == in_low # None /\ in_high # None /\ in_high[1] < in_low[1]

\* C1: whenever both bounds are supplied and high < low, a bound of 0
\* included, the script stops at the range warning: the Run block is not
\* entered, so no temp file is written, no connection made, no query run and
\* no chart rendered.
C1_InvalidRangeRejected ==
  HighBelowLow =>
    /\ pc = "idle"
    /\ warning = "range"
    /\ ~fp_exists
    /\ conn = "none"
    /\ queries = 0
    /\ chart = None

\* C2: when the script has ended, on whatever path, the temporary file of
\* the run is deleted and its connection is not open.
C2_ReleasedOnEveryExit == Terminal => (~fp_exists /\ conn # "open")

\* the distinct values (NULL counted as one) of the three settings
TriggerValues == { p.Value : p \in { q \in db.Properties : q.Property = 3 } }
QuenchValues == { p.Value : p \in { q \in db.Properties : q.Property = 4 } }
ScanValues == { f.NumScans : f \in db.Frames }

SomeSettingNotUnique ==
  \/ Cardinality(TriggerValues) # 1
  \/ Cardinality(ScanValues) # 1
  \/ Cardinality(QuenchValues) # 1

\* the run ended with the ambiguous-setting error and with nothing of what
\* follows the lookups
AmbiguousSettingFailure ==
  /\ exc = "RuntimeError"
  /\ defined \cap {"exp_frame_time", "empty_ms", "empty_msms", "fig",
                   "sample_name"} = {}
  /\ exp_frame_time = 0
  /\ fig = NoFigure
  /\ chart = None

\* C3 as claimed: a run that has left the `with` body on a store with a
\* setting of zero or several distinct values has failed with the
\* ambiguous-setting error.
C3_AmbiguousAlwaysRuntimeError ==
  (BodyLeft /\ SomeSettingNotUnique) => AmbiguousSettingFailure

\* C3, amended: a run that reaches the lookup of a setting with zero or
\* several distinct values fails there with the ambiguous-setting error and
\* computes nothing further: the setting, the expected frame period, the
\* empty-frame counts and the chart stay unbound.
C3_AmbiguousSettingFails ==
  (run_pressed /\ pc \in {"finally", "idle"}) =>
    /\ ("submit_ids" \in defined /\ Cardinality(TriggerValues) # 1) =>
         (AmbiguousSettingFailure /\ "cycletime_sec" \notin defined)
    /\ ("cycletime_sec" \in defined /\ Cardinality(ScanValues) # 1) =>
         (AmbiguousSettingFailure /\ "numscans" \notin defined)
    /\ ("numscans" \in defined /\ Cardinality(QuenchValues) # 1) =>
         (AmbiguousSettingFailure /\ "quenchtime_sec" \notin defined)

\* a run has failed at the NumScans lookup of a store whose frames disagree
C3_Witness ==
  /\ BodyLeft
  /\ "cycletime_sec" \in defined
  /\ Cardinality(ScanValues) = 2
  /\ exc = "RuntimeError"

\* the frames of the store whose Id lies in [frame_id_low, frame_id_high]
InRange ==
  { f \in db.Frames : frame_id_low[1] <= f.Id /\ f.Id <= frame_id_high[1] }

FrameWithId(i) == CHOOSE f \in db.Frames : f.Id = i

\* C4: with t the Time values of the n >= 1 frames in range in ascending Id
\* order, timediffs has length n-1, timediffs[i] = t[i+1] - t[i], and the
\* trace of the figure plots it against the Ids of the first n-1 frames.
C4_TimeDiffs ==
  "timediffs" \in defined =>
    LET n == Cardinality(InRange)
    IN  /\ Len(ids) = n
        /\ Len(times) = n
        /\ { ids[i] : i \in 1..n } = { f.Id : f \in InRange }
        /\ \A i \in 1..n : times[i] = FrameWithId(ids[i]).Time
        /\ \A i \in 1..(n - 1) : ids[i] < ids[i + 1]
        /\ n >= 1 =>
             /\ Len(timediffs) = n - 1
             /\ \A i \in 1..(n - 1) : timediffs[i] = times[i + 1] - times[i]
             /\ "fig" \in defined =>
                  /\ fig.traces[1].y = timediffs
                  /\ fig.traces[1].x = [i \in 1..(n - 1) |-> ids[i]]
             /\ chart # None =>
                  /\ chart[1].traces[1].y = timediffs
                  /\ chart[1].traces[1].x = [i \in 1..(n - 1) |-> ids[i]]

\* a chart of three frames with two different time deltas
C4_Witness ==
  /\ chart # None
  /\ Len(timediffs) = 2
  /\ timediffs[1] # timediffs[2]

\* no frame of the store is in the range the bounds select
EmptyEffectiveRange ==
  { f \in db.Frames : /\ (in_low = None \/ in_low[1] <= f.Id)
                      /\ (in_high = None \/ f.Id <= in_high[1]) } = {}

SettingsUsable ==
  /\ Cardinality(TriggerValues) = 1 /\ None \notin TriggerValues
  /\ Cardinality(ScanValues) = 1
  /\ Cardinality(QuenchValues) = 1 /\ None \notin QuenchValues

\* C5 as claimed: a run over a range with no frame ends with the index error
\* of the empty range and renders nothing.
C5_EmptyRangeIndexError ==
  (BodyLeft /\ EmptyEffectiveRange) => (exc = "IndexError" /\ chart = None)

\* C5, amended: a run over a range with no frame ends with an exception and
\* renders no chart; the exception is the index error of the empty range
\* exactly when Frames is not empty and each setting has one value that is
\* not NULL, otherwise an earlier statement has failed.
C5_EmptyRangeFails ==
  (run_pressed /\ Terminal /\ analysis_tdf # None /\ EmptyEffectiveRange) =>
    /\ exc # "none"
    /\ chart = None
    /\ "sample_name" \notin defined
    /\ conn = "closed" => (exc = "IndexError" <=> SettingsUsable)

\* a low bound beyond the defaulted high bound of a store with frames
C5_Witness ==
  /\ BodyLeft
  /\ db.Frames # {}
  /\ in_low # None
  /\ in_high = None
  /\ EmptyEffectiveRange
  /\ exc = "IndexError"

\* C6: Run without an upload ends at the upload warning: nothing of the Run
\* block is executed.
C6_MissingUploadStops ==
  (run_pressed /\ analysis_tdf = None) =>
    /\ pc = "idle"
    /\ warning = "upload"
    /\ exc = "none"
    /\ ~fp_exists
    /\ conn = "none"
    /\ queries = 0
    /\ defined = {}
    /\ chart = None

C6_Witness == run_pressed /\ analysis_tdf = None /\ warning = "upload"

\* C7: the two counts are those of the whole store, whatever the range, and
\* equal those of the run with both bounds unset.
C7_EmptyCountsWholeStore ==
  "empty_ms" \in defined =>
    /\ empty_ms = Cardinality({ f \in db.Frames :
                                  f.NumPeaks = 0 /\ f.MsMsType = 0 })
    /\ empty_msms = Cardinality({ f \in db.Frames :
                                    f.NumPeaks = 0 /\ f.MsMsType = 8 })
    /\ ref # None => /\ empty_ms = ref[1].empty_ms
                     /\ empty_msms = ref[1].empty_msms

\* a chart over a range that leaves out an empty MS1 and an empty MS/MS frame
C7_Witness ==
  /\ chart # None
  /\ ref # None
  /\ \E f, g \in db.Frames \ InRange :
       /\ f.NumPeaks = 0 /\ f.MsMsType = 0
       /\ g.NumPeaks = 0 /\ g.MsMsType = 8

\* C8: the expected frame period is that of the three settings of the whole
\* store, and equals the one of the run with both bounds unset.
C8_ExpectedPeriodRangeInvariant ==
  "exp_frame_time" \in defined =>
    /\ \A f \in db.Frames, t \in TriggerValues, q \in QuenchValues :
         exp_frame_time = f.NumScans * t[1] + 1000 * q[1]
    /\ ref # None => exp_frame_time = ref[1].exp_frame_time

\* a chart over a range that leaves out a frame, after one over all frames
C8_Witness ==
  /\ chart # None
  /\ ref # None
  /\ in_low # None
  /\ in_high # None
  /\ InRange # db.Frames
  /\ exp_frame_time > 0

\* the range has been defaulted: the connection is made and lines 61-65 ran
Defaulted == run_pressed /\ conn # "none" /\ pc # "default_range"

\* C9: an unset bound becomes the least / greatest frame Id of the store, a
\* supplied one, 0 included, is used as it is; with both unset every frame
\* is selected.
C9_RangeDefaults ==
  Defaulted =>
    /\ in_low # None => frame_id_low = in_low
    /\ in_high # None => frame_id_high = in_high
    /\ (in_low = None /\ db.Frames # {}) =>
         /\ frame_id_low # None
         /\ \E f \in db.Frames : f.Id = frame_id_low[1]
         /\ \A f \in db.Frames : frame_id_low[1] <= f.Id
    /\ (in_high = None /\ db.Frames # {}) =>
         /\ frame_id_high # None
         /\ \E f \in db.Frames : f.Id = frame_id_high[1]
         /\ \A f \in db.Frames : f.Id <= frame_id_high[1]
    /\ (in_low = None /\ in_high = None /\ "ids" \in defined) =>
         { ids[i] : i \in 1..Len(ids) } = { f.Id : f \in db.Frames }

\* a low bound of 0 is kept while the unset high bound is defaulted
C9_Witness ==
  /\ Defaulted
  /\ in_low = Some(0)
  /\ in_high = None
  /\ frame_id_low = Some(0)
  /\ frame_id_high = Some(MaxFrameId)
  /\ Len(ids) >= 2

\* the (frame Id, value) pairs of a property: value present, frame in Frames
PairsOf(pid) ==
  { <<p.Frame, p.Value[1]>> :
      p \in { q \in db.Properties :
                /\ q.Property = pid
                /\ q.Value # None
                /\ \E f \in db.Frames : f.Id = q.Frame } }

IsSeriesOf(xs, ys, pid) ==
  /\ Len(xs) = Len(ys)
  /\ \A i \in 1..(Len(xs) - 1) : xs[i] < xs[i + 1]
  /\ { <<xs[i], ys[i]>> : i \in 1..Len(xs) } = PairsOf(pid)

\* C10: each of the two series is the pairs of its property over the whole
\* store in ascending frame Id order, and equals the series of the run with
\* both bounds unset.
C10_SeriesWholeStore ==
  /\ "precsel_ids" \in defined =>
       /\ IsSeriesOf(precsel_ids, precsel_times, 1)
       /\ (chart # None /\ ref # None) =>
            ref[1].precsel = <<precsel_ids, precsel_times>>
  /\ "submit_ids" \in defined =>
       /\ IsSeriesOf(submit_ids, submit_times, 2)
       /\ (chart # None /\ ref # None) =>
            ref[1].submit = <<submit_ids, submit_times>>

\* a chart whose two series hold frames outside the range, on a store with a
\* NULL value and with rows of a frame that is not in Frames
C10_Witness ==
  /\ chart # None
  /\ ref # None
  /\ \E i \in 1..Len(precsel_ids) :
       precsel_ids[i] \notin { f.Id : f \in InRange }
  /\ \E i \in 1..Len(submit_ids) :
       submit_ids[i] \notin { f.Id : f \in InRange }
  /\ \E p \in db.Properties : p.Property = 1 /\ p.Value = None
  /\ \E p \in db.Properties :
       p.Property = 2 /\ p.Value # None /\ \A f \in db.Frames : f.Id # p.Frame

====
